---- MODULE Spec2Model ----
(***************************************************************************)
(* Model of scripts/generate_next_year_ephemeris.py: main() checks for the *)
(* yearly output file, build_year() calls fetch_month() for the months     *)
(* 1..12, fetch_month() issues up to RETRIES + 1 HTTP GETs, parses the     *)
(* rows of the first table into a Month Record and returns it sorted.      *)
(*                                                                         *)
(* Python values are represented as follows.                               *)
(*   str            a sequence of one-character strings ("Sat 2" is        *)
(*                  <<"S","a","t"," ","2">>), or, for the values built by  *)
(*                  f"{sign} {degree}", a sequence of tokens in which " "  *)
(*                  is the separating blank                                *)
(*   dict           a sequence of [k, v] records in insertion order        *)
(*   None | value   a record with a boolean field "some"                   *)
(*   seconds        hundredths of a second                                 *)
(***************************************************************************)
EXTENDS Integers, Sequences, FiniteSets, TLC

VARIABLES
  pc,          \* position of the process (see the actions)
  status,      \* "idle", "running", "ok" (main returned) or the exception raised
  file,        \* the file at out_path: [exists, data]
  fileAtStart, \* the file as main() found it (history)
  year_data,   \* build_year: the accumulating Year Snapshot
  m,           \* build_year: the loop variable
  attempt,     \* fetch_month: the retry loop variable
  lastOutcome, \* fetch_month: what the latest requests.get did (history)
  table,       \* fetch_month: the rows of the table found
  rowIdx,      \* fetch_month: index of the next row of the parse loop
  month_data,  \* fetch_month: the accumulating Month Record
  r,           \* build_year: what fetch_month returned
  gets,        \* requests.get calls of the fetch_month call in progress (history)
  fetched,     \* months fetch_month was called for in this run (history)
  results,     \* what fetch_month returned for each month of this run (history)
  slept        \* time slept since fetch_month last returned (history)

vars == <<pc, status, file, fileAtStart, year_data, m, attempt, lastOutcome,
          table, rowIdx, month_data, r, gets, fetched, results, slept>>

-----------------------------------------------------------------------------
(* Module-level constants of the script *)

RETRIES == 1
SLEEP_BETWEEN_MONTHS == 25
MinPlanetCells == 10
LastMonth == 12

PLANET_ABBRS == <<"SU", "MO", "ME", "VE", "MA", "JU", "SA", "UR", "NE", "PL">>

PLANET_MAP == [a \in {"SU", "MO", "ME", "VE", "MA", "JU", "SA", "UR", "NE", "PL"} |->
  CASE a = "SU" -> "Sun"     [] a = "MO" -> "Moon"    [] a = "ME" -> "Mercury"
    [] a = "VE" -> "Venus"   [] a = "MA" -> "Mars"    [] a = "JU" -> "Jupiter"
    [] a = "SA" -> "Saturn"  [] a = "UR" -> "Uranus"  [] a = "NE" -> "Neptune"
    [] a = "PL" -> "Pluto"]

ZODIAC_MAP == [z \in {"ARI", "TAU", "GEM", "CAN", "LEO", "VIR",
                      "LIB", "SCO", "SAG", "CAP", "AQU", "PIS"} |->
  CASE z = "ARI" -> "Aries"        [] z = "TAU" -> "Taurus"
    [] z = "GEM" -> "Gemini"       [] z = "CAN" -> "Cancer"
    [] z = "LEO" -> "Leo"          [] z = "VIR" -> "Virgo"
    [] z = "LIB" -> "Libra"        [] z = "SCO" -> "Scorpio"
    [] z = "SAG" -> "Sagittarius"  [] z = "CAP" -> "Capricorn"
    [] z = "AQU" -> "Aquarius"     [] z = "PIS" -> "Pisces"]

month_name == <<"January", "February", "March", "April", "May", "June", "July",
                "August", "September", "October", "November", "December">>

-----------------------------------------------------------------------------
(* Python built-ins used by the script *)

Digits == <<"0", "1", "2", "3", "4", "5", "6", "7", "8", "9">>

IsDigit(c) == \E i \in 1..Len(Digits) : Digits[i] = c

DigitVal(c) == (CHOOSE i \in 1..Len(Digits) : Digits[i] = c) - 1

\* int(s) for a string of decimal digits
RECURSIVE StrToInt(_)
StrToInt(s) ==
  IF s = <<>> THEN 0
  ELSE 10 * StrToInt(SubSeq(s, 1, Len(s) - 1)) + DigitVal(s[Len(s)])

\* str(n) for n >= 0
RECURSIVE IntToStr(_)
IntToStr(n) ==
  IF n < 10 THEN <<Digits[n + 1]>>
  ELSE IntToStr(n \div 10) \o <<Digits[(n % 10) + 1]>>

\* s.strip(): leading and trailing blanks removed
RECURSIVE Strip(_)
Strip(s) ==
  IF s = <<>> THEN s
  ELSE IF Head(s) = " " THEN Strip(Tail(s))
  ELSE IF s[Len(s)] = " " THEN Strip(SubSeq(s, 1, Len(s) - 1))
  ELSE s

\* " ".join(parts)
RECURSIVE Join(_)
Join(parts) ==
  IF parts = <<>> THEN <<>>
  ELSE IF Len(parts) = 1 THEN <<parts[1]>>
  ELSE <<parts[1], " ">> \o Join(Tail(parts))

\* The dict built by storing the [k, v] pairs one after the other: a key
\* stands where it was first stored and holds the value stored last
FromPairs(pairs) ==
  LET first == {i \in 1..Len(pairs) : \A j \in 1..(i - 1) : pairs[j].k # pairs[i].k}
      nth(p) == CHOOSE i \in first : Cardinality({j \in first : j < i}) = p - 1
      last(k) == CHOOSE i \in 1..Len(pairs) :
                   /\ pairs[i].k = k
                   /\ \A j \in (i + 1)..Len(pairs) : pairs[j].k # k
  IN  [p \in 1..Cardinality(first) |->
         [k |-> pairs[nth(p)].k, v |-> pairs[last(pairs[nth(p)].k)].v]]

\* d[k] = v on a dict: an existing key keeps its place, a new key goes last
DictSet(d, k, v) ==
  IF \E i \in 1..Len(d) : d[i].k = k
  THEN [i \in 1..Len(d) |-> IF d[i].k = k THEN [k |-> k, v |-> v] ELSE d[i]]
  ELSE Append(d, [k |-> k, v |-> v])

Keys(d) == {d[i].k : i \in 1..Len(d)}

\* d[k] for a key of d
DictGet(d, k) == d[CHOOSE i \in 1..Len(d) : d[i].k = k].v

None == [some |-> FALSE]
Some(x) == [some |-> TRUE, val |-> x]

-----------------------------------------------------------------------------
(* extract_day_num *)

\* \w of the regular expression, over the characters the model draws
WordChar(c) == IsDigit(c) \/ c \in {"S", "a", "t", "u", "n", "_"}

\* \b between t[i] and t[i+1] (i = 0: before the text, i = Len(t): after it)
WordBoundary(t, i) ==
  LET before == i >= 1 /\ WordChar(t[i])
      after  == i + 1 <= Len(t) /\ WordChar(t[i + 1])
  IN  before # after

\* the length of the match of \b([0-3]?\d)\b that starts at t[i], 0 if none
MatchAt(t, i) ==
  IF ~WordBoundary(t, i - 1) THEN 0
  ELSE IF /\ i + 1 <= Len(t)
          /\ t[i] \in {"0", "1", "2", "3"}
          /\ IsDigit(t[i + 1])
          /\ WordBoundary(t, i + 1) THEN 2
  ELSE IF IsDigit(t[i]) /\ WordBoundary(t, i) THEN 1
  ELSE 0

\* re.search: the leftmost match, as the matched text
ReSearch(t) ==
  IF \E i \in 1..Len(t) : MatchAt(t, i) > 0
  THEN LET i == CHOOSE j \in 1..Len(t) :
                  /\ MatchAt(t, j) > 0
                  /\ \A h \in 1..(j - 1) : MatchAt(t, h) = 0
       IN  Some(SubSeq(t, i, i + MatchAt(t, i) - 1))
  ELSE None

\* tr.tds holds the text of the row's td cells, get_text(" ", strip=True) applied
extract_day_num(tr) ==
  IF tr.tds = <<>> THEN None
  ELSE LET mt == ReSearch(tr.tds[1])
       IN  IF mt.some THEN Some(StrToInt(mt.val)) ELSE None

-----------------------------------------------------------------------------
(* fetch_month: the body of the row loop *)

\* img["alt"].strip() if img and img.has_attr("alt") else None
SignAbbr(td) == IF td.img /\ td.hasAlt THEN Some(Strip(td.alt)) ELSE None

\* ZODIAC_MAP.get(sign_abbr, "Unknown")
SignOf(sign_abbr) ==
  IF /\ sign_abbr.some
     /\ Len(sign_abbr.val) = 1
     /\ sign_abbr.val[1] \in DOMAIN ZODIAC_MAP
  THEN ZODIAC_MAP[sign_abbr.val[1]]
  ELSE "Unknown"

\* f"{sign} {degree}".strip() with degree = " ".join(span texts)
CellValue(td) == Strip(<<SignOf(SignAbbr(td)), " ">> \o Join(td.spans))

\* planet_tds[-len(PLANET_ABBRS):] in place of the first ten
FirstCellsLast(planet_tds) ==
  SubSeq(planet_tds, Len(planet_tds) - Len(PLANET_ABBRS) + 1, Len(planet_tds))

\* planet_tds[:len(PLANET_ABBRS)]
FirstCells(planet_tds) ==
  SubSeq(planet_tds, 1, IF Len(planet_tds) < Len(PLANET_ABBRS)
                        THEN Len(planet_tds) ELSE Len(PLANET_ABBRS))

\* The cell zip() pairs with the k-th abbreviation
ZipCell(cells, k) == cells[k]

\* the dict daily once the zip loop is over: the n-th pass stores the value of
\* the n-th cell under the n-th planet's name, and the names being distinct,
\* every pass adds a key
Daily(planet_tds) ==
  [n \in 1..Len(FirstCells(planet_tds)) |->
     [k |-> PLANET_MAP[PLANET_ABBRS[n]],
      v |-> CellValue(ZipCell(FirstCells(planet_tds), n))]]

\* len(planet_tds) < 9 in place of < 10
TooFewCellsOffByOne(planet_tds) == Len(planet_tds) < MinPlanetCells - 1

\* len(planet_tds) < 10: continue
TooFewCells(planet_tds) == Len(planet_tds) < MinPlanetCells

\* month_data after one pass of the row loop over tr
RowStep(md, tr) ==
  IF TooFewCells(tr.planet_tds) THEN md
  ELSE LET day_num == extract_day_num(tr)
       IN  IF ~day_num.some THEN md
           ELSE DictSet(md, IntToStr(day_num.val), Daily(tr.planet_tds))

-----------------------------------------------------------------------------
(* fetch_month: the sort and the return *)

\* the items left in insertion order
SortedByKeyUnsorted(items) == items

\* sorted(items, key=lambda kv: kv[0]): stable, ascending on the int key
SortedByKey(items) ==
  LET rank(i) == Cardinality({j \in 1..Len(items) :
                    \/ items[j].k < items[i].k
                    \/ items[j].k = items[i].k /\ j < i})
  IN  [p \in 1..Len(items) |-> items[CHOOSE i \in 1..Len(items) : rank(i) = p - 1]]

\* ((int(k), v) for k, v in month_data.items())
IntItems(md) == [i \in 1..Len(md) |-> [k |-> StrToInt(md[i].k), v |-> md[i].v]]

\* the dict {str(k): v for k, v in sorted_items}
StrKeyed(items) ==
  FromPairs([i \in 1..Len(items) |-> [k |-> IntToStr(items[i].k), v |-> items[i].v]])

SortedMonth(md) == StrKeyed(SortedByKey(IntItems(md)))

\* the emptiness test left out
NoRowsParsedNever(md) == FALSE

\* if not month_data: return None
NoRowsParsed(md) == md = <<>>

\* What fetch_month returns once the row loop is over
FetchReturn(month, md) ==
  IF NoRowsParsed(md) THEN None
  ELSE Some([mn |-> month_name[month], md |-> SortedMonth(md)])

-----------------------------------------------------------------------------
(* The pages the site may serve *)

MaxRows == 3
MaxCells == 11

\* The td cells of class udaj_planeta drawn: the img, its alt and the span texts
CellKinds == <<
  [img |-> TRUE,  hasAlt |-> TRUE,  alt |-> <<"LEO">>],
  [img |-> TRUE,  hasAlt |-> TRUE,  alt |-> <<" ", "ARI", " ">>],
  [img |-> TRUE,  hasAlt |-> TRUE,  alt |-> <<"XXX">>],
  [img |-> TRUE,  hasAlt |-> FALSE, alt |-> <<>>],
  [img |-> TRUE,  hasAlt |-> TRUE,  alt |-> <<"PIS">>],
  [img |-> FALSE, hasAlt |-> FALSE, alt |-> <<>>],
  [img |-> TRUE,  hasAlt |-> TRUE,  alt |-> <<"leo">>] >>

\* The k-th planet cell of a row: its kind and its spans vary with k
PlanetCell(k, off) ==
  LET kind == CellKinds[((k + off) % Len(CellKinds)) + 1]
  IN  [img |-> kind.img, hasAlt |-> kind.hasAlt, alt |-> kind.alt,
       spans |-> IF (k + off) % 4 = 0 THEN <<>> ELSE IntToStr(k) \o <<"'">>]

PlanetCells(n, off) == [k \in 1..n |-> PlanetCell(k, off)]

Row(text, n, off) == [tds |-> <<text>>, planet_tds |-> PlanetCells(n, off)]

\* A row of th cells: no td at all
HeaderRow == [tds |-> <<>>, planet_tds |-> <<>>]

DayTexts == { <<"S", "a", "t", " ", "2">>, <<"S", "u", "n", " ", "1", "5">>,
              <<"3">>, <<"1", "0">>, <<"0", "7">>,
              <<"S", "a", "t">>, <<"4", "5">> }

RowSet ==
  {Row(t, MinPlanetCells, 0) : t \in DayTexts}
    \cup {Row(<<"S", "a", "t", " ", "2">>, n, 1) : n \in (MinPlanetCells - 1)..MaxCells}
    \cup {HeaderRow}

Tables == UNION {[1..n -> RowSet] : n \in 0..MaxRows}

DayText(d) == <<"S", "a", "t", " ">> \o IntToStr(d)

\* A page of month mo whose rows parse: its days come out of order
GoodTable(mo) == << Row(DayText(mo + 1), MinPlanetCells, 0),
                    Row(DayText(mo), MinPlanetCells + 1, mo) >>

\* A page whose table holds no row that parses
BadTable == << HeaderRow, Row(DayText(2), MinPlanetCells - 1, 0) >>

TablesFor(mo) == {GoodTable(mo), BadTable}

-----------------------------------------------------------------------------
(* The process *)

Absent == [exists |-> FALSE, data |-> <<>>]

Months == 1..LastMonth

Init ==
  /\ pc = "idle"
  /\ status = "idle"
  /\ file = Absent
  /\ fileAtStart = Absent
  /\ year_data = <<>>
  /\ m = 1
  /\ attempt = 0
  /\ lastOutcome = "none"
  /\ table = <<>>
  /\ rowIdx = 1
  /\ month_data = <<>>
  /\ r = None
  /\ gets = 0
  /\ fetched = <<>>
  /\ results = [i \in Months |-> None]
  /\ slept = 0

\* the existence test left out
AlreadyExistsNever(f) == FALSE

\* os.path.exists(out_path)
AlreadyExists(f) == f.exists

\* main, up to the call of build_year; a finished process may be started again
Main ==
  /\ pc \in {"idle", "exited"}
  /\ fileAtStart' = file
  /\ year_data' = <<>>
  /\ m' = 1
  /\ attempt' = 0
  /\ lastOutcome' = "none"
  /\ table' = <<>>
  /\ rowIdx' = 1
  /\ month_data' = <<>>
  /\ r' = None
  /\ gets' = 0
  /\ fetched' = <<>>
  /\ results' = [i \in Months |-> None]
  /\ slept' = 0
  /\ IF AlreadyExists(file)
     THEN pc' = "exited" /\ status' = "ok"
     ELSE pc' = "loop" /\ status' = "running"
  /\ UNCHANGED file

\* build_year: the for loop calls fetch_month(m, year)
CallFetch ==
  /\ pc = "loop"
  /\ m \in Months
  /\ pc' = "get"
  /\ attempt' = 0
  /\ gets' = 0
  /\ lastOutcome' = "none"
  /\ fetched' = Append(fetched, m)
  /\ UNCHANGED <<status, file, fileAtStart, year_data, m, table, rowIdx,
                 month_data, r, results, slept>>

\* attempt <= RETRIES in place of <
ShouldRetryInclusive(a) == a <= RETRIES

\* attempt < RETRIES
ShouldRetry(a) == a < RETRIES

\* range(RETRIES + 1)
AttemptRange == 0..RETRIES

\* fetch_month returns res to build_year
Return(res) ==
  /\ r' = res
  /\ results' = [results EXCEPT ![m] = res]
  /\ slept' = 0
  /\ pc' = "ret"
  /\ UNCHANGED status

\* a statement of the try block raises (requests.get, raise_for_status);
\* time.sleep(0.8) precedes the next attempt
GetError ==
  /\ pc = "get"
  /\ gets' = gets + 1
  /\ lastOutcome' = "error"
  /\ IF ShouldRetry(attempt)
     THEN /\ attempt' = attempt + 1
          /\ IF attempt + 1 \in AttemptRange
             THEN pc' = "get" /\ status' = status
             ELSE \* the loop ends without a table: NameError at line 71
                  pc' = "exited" /\ status' = "NameError"
          /\ UNCHANGED <<r, results, slept>>
     ELSE /\ Return(None)
          /\ UNCHANGED attempt
  /\ UNCHANGED <<file, fileAtStart, year_data, m, table, rowIdx, month_data, fetched>>

\* the page holds no table
GetNoTable ==
  /\ pc = "get"
  /\ gets' = gets + 1
  /\ lastOutcome' = "notable"
  /\ Return(None)
  /\ UNCHANGED <<file, fileAtStart, year_data, m, attempt, table, rowIdx,
                 month_data, fetched>>

\* the page holds a table: break
GetTable ==
  /\ pc = "get"
  /\ gets' = gets + 1
  /\ lastOutcome' = "table"
  /\ \E t \in TablesFor(m) : table' = t
  /\ rowIdx' = 1
  /\ month_data' = <<>>
  /\ pc' = "rows"
  /\ UNCHANGED <<status, file, fileAtStart, year_data, m, attempt, r, fetched,
                 results, slept>>

\* one pass of the row loop
ParseRow ==
  /\ pc = "rows"
  /\ rowIdx <= Len(table)
  /\ month_data' = RowStep(month_data, table[rowIdx])
  /\ rowIdx' = rowIdx + 1
  /\ UNCHANGED <<pc, status, file, fileAtStart, year_data, m, attempt, lastOutcome,
                 table, r, gets, fetched, results, slept>>

\* the row loop is over
ParseDone ==
  /\ pc = "rows"
  /\ rowIdx > Len(table)
  /\ Return(FetchReturn(m, month_data))
  /\ UNCHANGED <<file, fileAtStart, year_data, m, attempt, lastOutcome, table,
                 rowIdx, month_data, gets, fetched>>

\* time.sleep(SLEEP_BETWEEN_MONTHS) is reached only past the continue
SleepAfter(res) == IF res.some THEN SLEEP_BETWEEN_MONTHS ELSE 0

\* year_data = {mn: md} in place of year_data[mn] = md
MergeReplacing(yd, res) ==
  IF res.some THEN <<[k |-> res.val.mn, v |-> res.val.md]>> ELSE yd

\* year_data after fetch_month returned res
Merge(yd, res) == IF res.some THEN DictSet(yd, res.val.mn, res.val.md) ELSE yd

\* break in place of continue
LoopNextBreaking(mo, res) == IF res.some THEN mo + 1 ELSE LastMonth + 1

\* the next value of the loop variable
LoopNext(mo, res) == mo + 1

\* build_year: the rest of the loop body
BuildYearStep ==
  /\ pc = "ret"
  /\ year_data' = Merge(year_data, r)
  /\ slept' = SleepAfter(r)
  /\ m' = LoopNext(m, r)
  /\ pc' = "loop"
  /\ attempt' = 0
  /\ gets' = 0
  /\ lastOutcome' = "none"
  /\ table' = <<>>
  /\ rowIdx' = 1
  /\ month_data' = <<>>
  /\ r' = None
  /\ UNCHANGED <<status, file, fileAtStart, fetched, results>>

\* the emptiness test left out
MainAbortsNever(data) == FALSE

\* if not data: raise SystemExit
MainAborts(data) == data = <<>>

\* build_year returns; main writes the file or aborts
Finish ==
  /\ pc = "loop"
  /\ m \notin Months
  /\ pc' = "exited"
  /\ IF MainAborts(year_data)
     THEN status' = "SystemExit" /\ file' = file
     ELSE status' = "ok" /\ file' = [exists |-> TRUE, data |-> year_data]
  /\ UNCHANGED <<fileAtStart, year_data, m, attempt, lastOutcome, table, rowIdx,
                 month_data, r, gets, fetched, results, slept>>

Next ==
  \/ Main
  \/ CallFetch
  \/ GetError
  \/ GetNoTable
  \/ GetTable
  \/ ParseRow
  \/ ParseDone
  \/ BuildYearStep
  \/ Finish

Spec == Init /\ [][Next]_vars

-----------------------------------------------------------------------------
(* fetch_month alone: one call for any month, every earlier month having    *)
(* returned None                                                            *)

FetchInit ==
  /\ pc = "loop"
  /\ status = "running"
  /\ file = Absent
  /\ fileAtStart = Absent
  /\ year_data = <<>>
  /\ m \in Months
  /\ attempt = 0
  /\ lastOutcome = "none"
  /\ table = <<>>
  /\ rowIdx = 1
  /\ month_data = <<>>
  /\ r = None
  /\ gets = 0
  /\ fetched = [i \in 1..(m - 1) |-> i]
  /\ results = [i \in Months |-> None]
  /\ slept = 0

FetchNext ==
  \/ CallFetch
  \/ GetError
  \/ GetNoTable
  \/ GetTable
  \/ ParseRow
  \/ ParseDone

\* The process is sequential and every requests.get ends (timeout=TIMEOUT_SECS):
\* a step that can be taken is taken
FairFetchSpec == FetchInit /\ [][FetchNext]_vars /\ WF_vars(FetchNext)

-----------------------------------------------------------------------------
(* The row loop alone: fetch_month(1, year) has found a table on its first  *)
(* attempt, the table being any of Tables                                   *)

ParseInit ==
  /\ pc = "rows"
  /\ status = "running"
  /\ file = Absent
  /\ fileAtStart = Absent
  /\ year_data = <<>>
  /\ m = 1
  /\ attempt = 0
  /\ lastOutcome = "table"
  /\ table \in Tables
  /\ rowIdx = 1
  /\ month_data = <<>>
  /\ r = None
  /\ gets = 1
  /\ fetched = <<1>>
  /\ results = [i \in Months |-> None]
  /\ slept = 0

ParseNext ==
  \/ ParseRow
  \/ ParseDone

ParseSpec == ParseInit /\ [][ParseNext]_vars

-----------------------------------------------------------------------------
(* Properties *)

\* The months whose fetch_month call of this run returned a pair
Succeeded == {mo \in Months : results[mo].some}

\* C1: a run of main() that finds the target file present calls neither
\* fetch_month nor requests.get, leaves the file as it found it and returns
\* normally; a run that found it absent and had a month succeed has written it,
\* so that the run after it is such a run.
C1_Idempotent ==
  /\ fileAtStart.exists =>
       /\ fetched = <<>>
       /\ gets = 0
       /\ file = fileAtStart
       /\ pc = "exited"
       /\ status = "ok"
  /\ (pc = "exited" /\ ~fileAtStart.exists /\ Succeeded # {}) => file.exists

C1_Witness ==
  pc = "exited" /\ fileAtStart.exists /\ status = "ok" /\ Len(file.data) = 2

\* C2: a run that found the file absent and whose 12 fetch_month calls all
\* returned None ends with SystemExit and without the file; no file exists at
\* any point of a run that has not yet returned.
C2_TotalFailureAbort ==
  /\ (pc = "exited" /\ ~fileAtStart.exists /\ Succeeded = {}) =>
       (status = "SystemExit" /\ ~file.exists)
  /\ status = "running" => ~file.exists

C2_Witness ==
  pc = "exited" /\ Len(fetched) = LastMonth /\ Succeeded = {} /\ status = "SystemExit"

\* C3: a run that found the file absent and in which the non-empty set S of
\* months succeeded has written the file; its keys are exactly the month names
\* of S, each once, each mapped to the Month Record fetch_month returned.
C3_PartialSuccess ==
  (pc = "exited" /\ ~fileAtStart.exists /\ Succeeded # {}) =>
     /\ file.exists
     /\ status = "ok"
     /\ Keys(file.data) = {month_name[mo] : mo \in Succeeded}
     /\ Len(file.data) = Cardinality(Succeeded)
     /\ \A mo \in Succeeded :
          DictGet(file.data, month_name[mo]) = results[mo].val.md

C3_Witness ==
  /\ pc = "exited"
  /\ ~fileAtStart.exists
  /\ Succeeded = Months \ {3}
  /\ Len(file.data) = LastMonth - 1

\* The GETs of the call in progress number attempt before a GET and at most
\* RETRIES + 1 after it, a GET past the first follows one that raised, and
\* nothing has been raised to the caller
C4_AttemptsBounded ==
  /\ pc = "get" =>
       /\ attempt \in 0..RETRIES
       /\ gets = attempt
       /\ (attempt > 0 => lastOutcome = "error")
  /\ pc \in {"rows", "ret"} => gets \in 1..(RETRIES + 1)
  /\ (pc = "ret" /\ gets = RETRIES + 1 /\ lastOutcome = "error") => ~r.some
  /\ status = "running"

\* C4: one call of fetch_month issues between 1 and RETRIES + 1 GETs, goes on
\* to a further GET only after one that raised, returns None when the last of
\* RETRIES + 1 GETs raised, raises nothing to its caller, and returns whatever
\* the GETs do.
C4_BoundedRetry == []C4_AttemptsBounded /\ ((pc = "get") ~> (pc = "ret"))

C4_Witness ==
  pc = "ret" /\ gets = RETRIES + 1 /\ lastOutcome = "error" /\ ~r.some

\* C5: when fetch_month is called for a month after January, build_year has
\* slept SLEEP_BETWEEN_MONTHS since the call for the month before returned,
\* whether that call returned a pair or None.
C5_SleepBetweenMonths ==
  (pc = "get" /\ m > 1) => slept = SLEEP_BETWEEN_MONTHS

\* C6: build_year calls fetch_month once for each month 1..12 in ascending
\* order: the calls made so far are 1, 2, ..., up to the month at hand, whatever
\* the earlier calls returned, and a run that found no file has made all 12.
C6_EachMonthOnce ==
  /\ \A i \in 1..Len(fetched) : fetched[i] = i
  /\ pc = "loop" => Len(fetched) = m - 1
  /\ pc \in {"get", "rows", "ret"} => Len(fetched) = m
  /\ (pc = "exited" /\ ~fileAtStart.exists) => Len(fetched) = LastMonth

C6_Witness ==
  /\ pc = "exited"
  /\ Len(fetched) = LastMonth
  /\ ~results[1].some
  /\ results[2].some
  /\ ~results[LastMonth].some

\* Whether the text holds a decimal digit
HasDigit(text) == \E i \in 1..Len(text) : IsDigit(text[i])

\* What is required of a row that contributes an entry
MayContribute(tr) ==
  /\ Len(tr.planet_tds) >= 10
  /\ tr.tds # <<>>
  /\ HasDigit(tr.tds[1])
  /\ extract_day_num(tr).some

\* Every key of the record comes from a row, among the first n of the table,
\* that may contribute
KeysFromRows(md, n) ==
  \A i \in 1..Len(md) : \E j \in 1..n :
     /\ MayContribute(table[j])
     /\ md[i].k = IntToStr(extract_day_num(table[j]).val)

C7_OnlyAcceptedRows ==
  /\ KeysFromRows(month_data, rowIdx - 1)
  /\ (pc = "ret" /\ r.some) => KeysFromRows(r.val.md, Len(table))

\* A row that may not contribute leaves month_data as it was and the loop
\* goes on to the next row
C7_SkipStep ==
  (pc = "rows" /\ rowIdx <= Len(table) /\ ~MayContribute(table[rowIdx])) =>
     (month_data' = month_data /\ rowIdx' = rowIdx + 1 /\ pc' = "rows")

\* C7: a row contributes an entry only if it has at least 10 planet cells and
\* a day number can be extracted from its first cell; any other row is skipped,
\* which neither ends the loop nor changes the entries collected.
C7_RowAcceptance == []C7_OnlyAcceptedRows /\ [][C7_SkipStep]_vars

C7_Witness ==
  /\ pc = "ret"
  /\ Len(table) = 3
  /\ Len(table[1].planet_tds) = 9 /\ HasDigit(table[1].tds[1])
  /\ Len(table[2].planet_tds) = 10 /\ ~HasDigit(table[2].tds[1])
  /\ MayContribute(table[3])
  /\ r.some
  /\ Len(r.val.md) = 1

\* C8: the Month Record fetch_month returns lists its day keys in strictly
\* ascending numeric order; each key is the decimal string of its day number
\* with no leading zero; the record holds the entries of month_data, no more
\* and no fewer.
C8_DayOrdering ==
  (pc = "ret" /\ r.some) =>
     LET md == r.val.md IN
       /\ \A i \in 1..(Len(md) - 1) : StrToInt(md[i].k) < StrToInt(md[i + 1].k)
       /\ \A i \in 1..Len(md) :
            /\ md[i].k # <<>>
            /\ \A c \in 1..Len(md[i].k) : IsDigit(md[i].k[c])
            /\ Len(md[i].k) > 1 => md[i].k[1] # "0"
       /\ Keys(md) = Keys(month_data)
       /\ Len(md) = Len(month_data)
       /\ \A k \in Keys(md) : DictGet(md, k) = DictGet(month_data, k)

C8_Witness ==
  /\ pc = "ret"
  /\ r.some
  /\ Len(month_data) = 3
  /\ month_data[1].k = <<"1", "0">>
  /\ month_data[2].k = <<"3">>
  /\ month_data[3].k = <<"2">>
  /\ r.val.md[1].k = <<"2">>
  /\ r.val.md[2].k = <<"3">>
  /\ r.val.md[3].k = <<"1", "0">>

PlanetNames == <<"Sun", "Moon", "Mercury", "Venus", "Mars",
                 "Jupiter", "Saturn", "Uranus", "Neptune", "Pluto">>

ZodiacNames == {"Aries", "Taurus", "Gemini", "Cancer", "Leo", "Virgo", "Libra",
                "Scorpio", "Sagittarius", "Capricorn", "Aquarius", "Pisces"}

\* The alt code of the cell's img is one of the 12 codes
Recognised(td) ==
  td.img /\ td.hasAlt /\ \E z \in DOMAIN ZODIAC_MAP : Strip(td.alt) = <<z>>

\* The Day Record is the one derived from the planet cells, cell by cell
DerivedFrom(daily, cells) ==
  /\ Len(cells) >= Len(daily)
  /\ \A k \in 1..Len(daily) :
       /\ daily[k].k = PlanetNames[k]
       /\ daily[k].v = CellValue(cells[k])
       /\ Head(daily[k].v) \in ZodiacNames \cup {"Unknown"}
       /\ ~Recognised(cells[k]) => Head(daily[k].v) = "Unknown"
       /\ Recognised(cells[k]) => Head(daily[k].v) \in ZodiacNames

ShapeOfDays(md) ==
  \A i \in 1..Len(md) :
     /\ Len(md[i].v) <= 10
     /\ \E j \in 1..Len(table) : DerivedFrom(md[i].v, table[j].planet_tds)

\* C9: every Day Record has at most 10 entries, the k-th under the k-th planet
\* name of the canonical order and derived from the k-th planet cell of a row;
\* cells past the tenth are ignored; the sign is one of the 12 zodiac names, or
\* "Unknown" when the alt code is missing or not one of the 12.
C9_DayRecordShape ==
  /\ ShapeOfDays(month_data)
  /\ (pc = "ret" /\ r.some) => ShapeOfDays(r.val.md)

C9_Witness ==
  /\ pc = "ret"
  /\ r.some
  /\ Len(table) = 1
  /\ Len(table[1].planet_tds) = 11
  /\ Len(r.val.md[1].v) = 10
  /\ Head(r.val.md[1].v[1].v) = "Unknown"
  /\ \E k \in 1..10 : Head(r.val.md[1].v[k].v) = "Leo"

NonEmptyMonths(yd) == yd # <<>> /\ \A i \in 1..Len(yd) : yd[i].v # <<>>

\* C10: fetch_month returns no pair whose Month Record is empty, and whenever
\* the output file exists it holds at least one month and every month in it
\* holds at least one Day Record.
C10_NoEmptyArtifact ==
  /\ r.some => r.val.md # <<>>
  /\ \A mo \in Months : results[mo].some => results[mo].val.md # <<>>
  /\ file.exists => NonEmptyMonths(file.data)

C10_Witness ==
  /\ pc = "exited"
  /\ file.exists
  /\ Len(file.data) = 1
  /\ Len(file.data[1].v) = 2
  /\ ~fileAtStart.exists
  /\ Cardinality(Succeeded) = 1

====
